---- MODULE Spec2Model ----
(***************************************************************************)
(* A model of mls_ingestion's queue-driven job dispatcher                  *)
(* (engine/orchestrator.py: ServiceBusOrchestrator) and of the ingestion   *)
(* pipeline it invokes (engine/runner.py, engine/sinks.py).                *)
(*                                                                         *)
(* Optional values (Python's None) are modelled as sets: {} is None and    *)
(* {x} is the value x.                                                     *)
(***************************************************************************)
EXTENDS Integers, Sequences, FiniteSets, TLC

VARIABLES
    pc,             \* position of listen_queue
    exitReason,     \* how listen_queue ended ("none" while it runs)
    inputQueue,     \* self.input_queue
    argQueue,       \* listen_queue's queue_name argument
    outputQueue,    \* self.output_queue
    instDuration,   \* self.listen_duration_seconds
    argDuration,    \* listen_queue's listen_duration_seconds argument
    endTime,        \* end_time
    clock,          \* time.time()
    payload,        \* the body of each message produced so far
    status,         \* each message's state in the input queue
    receives,       \* number of messages receive_messages has returned
    batch,          \* the received messages the for loop has not reached yet
    d,              \* the delivery being processed (msg of the for loop)
    last,           \* the delivery the listener was done with last
    okRuns,         \* per message, the runs of the pipeline that returned
    rn,             \* the locals of run() for the delivery being processed
    sink,           \* the sink file: {} when absent, else {its lines}
    outbox,         \* the messages sent to output queues, in order
    call            \* the call in progress: of send() in a fetch of run(), or
                    \* of a function of the pipeline applied on its own

vars == <<pc, exitReason, inputQueue, argQueue, outputQueue, instDuration, argDuration,
          endTime, clock, payload, status, receives, batch, d, last, okRuns, rn,
          sink, outbox, call>>

(***************************************************************************)
(* Bounds of the model.                                                    *)
(***************************************************************************)
MaxReceives == 2      \* deliveries (first deliveries and redeliveries)
MaxPages == 2         \* max_pages of the paginated source
MaxRows == 2          \* rows of a page that is not empty
ListenDuration == 1   \* the positive listen duration that is tried

\* receive_messages as it would be called to take two messages at a time.
ReceiveTwo == 1 + 1

\* max_message_count of the receive_messages call.
MaxMessageCount == 1

\* Every delivery may be of a message of its own.
Jobs == 1..MaxReceives

\* The clock stops advancing once the listen duration has elapsed.
MaxTime == ListenDuration

None == {}
Some(x) == {x}
Val(s) == CHOOSE x \in s : TRUE

\* The truth value Python gives an optional string: None and the empty
\* string are false.
Truthy(s) == s # None /\ Val(s) # ""

(***************************************************************************)
(* Message payloads.  json is what the body decodes to: "invalid" (not     *)
(* JSON), "array" (JSON, but no object) or "object".  mls is the wire      *)
(* value of the 'mls' key, output_queue the value of that key (None when   *)
(* the object has no such key, Some(CtxNull) for a JSON null), and extra   *)
(* the other keys of the object with their values, in the object's order.  *)
(***************************************************************************)
\* A string and a number as values of a payload and of the context.
CtxStr(s) == [t |-> "str", s |-> s]
CtxNum(n) == [t |-> "num", n |-> n]
CtxBool(b) == [t |-> "bool", b |-> b]
CtxNull == [t |-> "null"]

\* The truth value Python gives such a value: None, False, 0 and the empty
\* string are false.
TruthyValue(v) ==
    CASE v.t = "str" -> v.s # ""
      [] v.t = "num" -> v.n # 0
      [] v.t = "bool" -> v.b
      [] OTHER -> FALSE

MlsTokens == {"absent", "int7", "str7", "strabc"}

\* int(mls) of handle_message: None when the coercion raises.
CoerceMls(tok) ==
    CASE tok = "int7" -> Some(7)
      [] tok = "str7" -> Some(7)
      [] OTHER -> None

Payloads ==
    { [json |-> "invalid", config |-> None, mls |-> "absent", output_queue |-> None,
       extra |-> << >>],
      [json |-> "array", config |-> None, mls |-> "absent", output_queue |-> None,
       extra |-> << >>],
      [json |-> "object", config |-> None, mls |-> "int7", output_queue |-> None,
       extra |-> << >>],
      [json |-> "object", config |-> Some("paged.yaml"), mls |-> "absent",
       output_queue |-> None, extra |-> << >>],
      [json |-> "object", config |-> Some("paged.yaml"), mls |-> "strabc",
       output_queue |-> None, extra |-> << >>],
      [json |-> "object", config |-> Some("missing.yaml"), mls |-> "int7",
       output_queue |-> None, extra |-> << >>],
      [json |-> "object", config |-> Some("empty.yaml"), mls |-> "int7",
       output_queue |-> None, extra |-> << >>],
      [json |-> "object", config |-> Some("paged.yaml"), mls |-> "int7",
       output_queue |-> Some(CtxNull),
       extra |-> << <<"request_id", CtxNum(0)>>, <<"since", CtxStr("2024-01-01")>> >>],
      [json |-> "object", config |-> Some("single.yaml"), mls |-> "str7",
       output_queue |-> Some(CtxStr("override")),
       extra |-> << <<"request_id", CtxStr("req-9")>> >>] }

NoPayload ==
    [json |-> "none", config |-> None, mls |-> "absent", output_queue |-> None,
     extra |-> << >>]

(***************************************************************************)
(* Requests and their templates (engine/http_client.py).  A string is a   *)
(* sequence of pieces: a piece of text, or a Jinja2 expression             *)
(* "{{ name }}".  A value of a request template is a string, a number, a   *)
(* list or a dict (a sequence of <<key, value>> pairs).                    *)
(***************************************************************************)
Text(s) == [expr |-> FALSE, text |-> s]
Expr(name) == [expr |-> TRUE, text |-> name]

Str(pieces) == [t |-> "str", pieces |-> pieces]
Num(n) == [t |-> "num", n |-> n]
List(items) == [t |-> "list", items |-> items]
Dict(items) == [t |-> "dict", items |-> items]

\* str() of a context value, as Jinja2 prints it.
ToText(v) ==
    CASE v.t = "num" -> ToString(v.n)
      [] v.t = "bool" -> IF v.b THEN "True" ELSE "False"
      [] v.t = "null" -> "None"
      [] OTHER -> v.s

\* Template(s).render(**context): every expression is replaced by the text
\* of the context's value, by nothing when the context lacks the name.
Render(pieces, context) ==
    [i \in 1..Len(pieces) |->
        IF pieces[i].expr
        THEN Text(IF pieces[i].text \in DOMAIN context
                  THEN ToText(context[pieces[i].text]) ELSE "")
        ELSE pieces[i]]

RECURSIVE format_with_jinja(_, _)
format_with_jinja(template_obj, context) ==
    CASE template_obj.t = "dict" ->
            Dict([i \in 1..Len(template_obj.items) |->
                    <<template_obj.items[i][1],
                      format_with_jinja(template_obj.items[i][2], context)>>])
      [] template_obj.t = "list" ->
            List([i \in 1..Len(template_obj.items) |->
                    format_with_jinja(template_obj.items[i], context)])
      [] template_obj.t = "str" -> Str(Render(template_obj.pieces, context))
      [] OTHER -> template_obj

\* build_auth_headers: the headers the authentication adds.
build_auth_headers(auth) ==
    CASE auth.type = "bearer" /\ Truthy(auth.token) ->
            << <<"Authorization", Str(<<Text("Bearer "), Text(Val(auth.token))>>)>> >>
      [] auth.type = "api_key" /\ Truthy(auth.header) /\ Truthy(auth.value) ->
            << <<Val(auth.header), Str(<<Text(Val(auth.value))>>)>> >>
      [] OTHER -> << >>

\* {**a, **b} of two dicts: b's value replaces a's under the same key, and
\* b's other keys follow a's.
Merge(a, b) ==
    LET keysB == {b[j][1] : j \in 1..Len(b)}
        keysA == {a[i][1] : i \in 1..Len(a)}
        inA == [i \in 1..Len(a) |->
                  IF a[i][1] \in keysB
                  THEN <<a[i][1],
                         b[CHOOSE j \in 1..Len(b) : b[j][1] = a[i][1]][2]>>
                  ELSE a[i]]
    IN  inA \o SelectSeq(b, LAMBDA kv : kv[1] \notin keysA)

\* The first lines of send: the request it is about to issue.
Request(spec, auth, context) ==
    [method |-> spec.method,
     headers |-> Dict(Merge(spec.headers.items, build_auth_headers(auth))),
     params |-> format_with_jinja(spec.params, context),
     url |-> format_with_jinja(spec.url, context),
     body |-> IF spec.body # None /\ Val(spec.body).items # << >>
              THEN Some(format_with_jinja(Val(spec.body), context)) ELSE None]

AuthNone == [type |-> "none", token |-> None, header |-> None, value |-> None]
AuthBearer == [type |-> "bearer", token |-> Some("t0k"), header |-> None, value |-> None]

\* A GET whose URL and query take the page from the context.
GetRequest ==
    [method |-> "GET",
     url |-> Str(<<Text("https://mls/listings/"), Expr("page")>>),
     headers |-> Dict(<< <<"Accept", Str(<<Text("application/json")>>)>> >>),
     params |-> Dict(<< <<"page", Str(<<Expr("page")>>)>>, <<"limit", Num(100)>> >>),
     body |-> None]

\* A POST with a header, a query parameter and a body that take their
\* values from the context.
PostRequest ==
    [method |-> "POST",
     url |-> Str(<<Text("https://mls/search")>>),
     headers |-> Dict(<< <<"X-Request-Id", Str(<<Expr("request_id")>>)>> >>),
     params |-> Dict(<< <<"since", Str(<<Expr("since")>>)>> >>),
     body |-> Some(Dict(<< <<"pages", List(<<Str(<<Expr("page")>>), Num(1)>>)>> >>))]

\* ctx of the pagination loop: {**context, "page": page}.
PageContext(context, page) ==
    [k \in DOMAIN context \cup {"page"} |->
        IF k = "page" THEN Num(page) ELSE context[k]]

(***************************************************************************)
(* Configuration files (engine/config.py).                                 *)
(***************************************************************************)
SinkPath == "out/records"

\* paginate of a source: a dict whose 'start' and 'max_pages' may be absent.
PageDict(type, start, max_pages) ==
    [type |-> type, start |-> start, max_pages |-> max_pages]

\* response of the sources that declare one: the status, and one header.
StatusFields ==
    << [name |-> "status", source |-> "status", expr |-> None],
       [name |-> "next", source |-> "header", expr |-> Some("X-Next")] >>

PagedSource ==
    [name |-> "listings", mls_id |-> 7, auth |-> AuthBearer,
     input_format |-> "json", request |-> GetRequest, response |-> None,
     paginate |-> Some(PageDict("page", Some(1), Some(MaxPages))),
     sink |-> [type |-> "ndjson", path |-> SinkPath, mode |-> "overwrite"]]

\* A source whose pagination starts after page 1.
LateSource ==
    [name |-> "sold", mls_id |-> 7, auth |-> AuthBearer,
     input_format |-> "json", request |-> GetRequest, response |-> None,
     paginate |-> Some(PageDict("page", Some(2), Some(MaxPages + 1))),
     sink |-> [type |-> "ndjson", path |-> SinkPath, mode |-> "overwrite"]]

SingleSource ==
    [name |-> "agents", mls_id |-> 0, auth |-> AuthNone,
     input_format |-> "json", request |-> PostRequest, response |-> None,
     paginate |-> None,
     sink |-> [type |-> "ndjson", path |-> SinkPath, mode |-> "append"]]

\* What yaml.safe_load of the file holds: None when it cannot be opened.
ConfigFile(path) ==
    CASE path = "paged.yaml" -> Some(<<PagedSource>>)
      [] path = "single.yaml" -> Some(<<SingleSource>>)
      [] path = "late.yaml" -> Some(<<LateSource>>)
      [] path = "empty.yaml" -> Some(<< >>)
      [] OTHER -> None

\* The validator as it would be if it only compared a source with the one
\* declared before it.
ensure_unique_mlsAdjacent(sources) ==
    \A i \in 2..Len(sources) : sources[i].mls_id # sources[i - 1].mls_id

\* AppConfig.ensure_unique_mls: no two sources share an mls_id.
ensure_unique_mls(sources) ==
    \A i, j \in 1..Len(sources) :
        sources[i].mls_id = sources[j].mls_id => i = j

\* The first lines of run(): the file is read and AppConfig(**raw) is built.
\* None when that raises (no such file, or the validation fails).
AppConfig(path) ==
    LET raw == ConfigFile(path)
    IN  IF raw = None THEN None
        ELSE IF ensure_unique_mls(Val(raw)) THEN raw
        ELSE None

\* AppConfig(sources=...) on a list of source definitions: the list when
\* the validator accepts it, None when it raises.
AppConfigOf(sources) ==
    IF ensure_unique_mls(sources) THEN Some(sources) ELSE None

\* The first index of sources that satisfies P, or 0.
FirstIndex(sources, P(_)) ==
    IF \E i \in 1..Len(sources) : P(sources[i])
    THEN CHOOSE i \in 1..Len(sources) :
            /\ P(sources[i])
            /\ \A j \in 1..(i - 1) : ~P(sources[j])
    ELSE 0

\* str.lower() on the names the configurations and the responses use;
\* the other names of the model are in lower case already.
Lower(s) ==
    CASE s = "Default" -> "default"
      [] s = "DEFAULT" -> "default"
      [] s = "X-Next" -> "x-next"
      [] s = "X-NEXT" -> "x-next"
      [] s = "ETag" -> "etag"
      [] s = "ETAG" -> "etag"
      [] s = "Etag" -> "etag"
      [] OTHER -> s

\* _get_source as it would be with the source named 'default' looked for
\* before the source of id 0.
GetSourceNamedFirst(sources, mls) ==
    LET exact == FirstIndex(sources, LAMBDA s : s.mls_id = mls)
        zero  == FirstIndex(sources, LAMBDA s : s.mls_id = 0)
        named == FirstIndex(sources, LAMBDA s : Lower(s.name) = "default")
    IN  IF exact # 0 THEN Some(sources[exact])
        ELSE IF named # 0 THEN Some(sources[named])
        ELSE IF zero # 0 THEN Some(sources[zero])
        ELSE IF Len(sources) > 0 THEN Some(sources[1])
        ELSE None

\* _get_source: None stands for SystemExit.
GetSource(sources, mls) ==
    LET exact == FirstIndex(sources, LAMBDA s : s.mls_id = mls)
        zero  == FirstIndex(sources, LAMBDA s : s.mls_id = 0)
        named == FirstIndex(sources, LAMBDA s : Lower(s.name) = "default")
    IN  IF exact # 0 THEN Some(sources[exact])
        ELSE IF zero # 0 THEN Some(sources[zero])
        ELSE IF named # 0 THEN Some(sources[named])
        ELSE IF Len(sources) > 0 THEN Some(sources[1])
        ELSE None

(***************************************************************************)
(* Responses and the extraction of their fields (engine/runner.py).        *)
(* A response has a status code, headers (<<name, value>> pairs), and a    *)
(* body: json is what resp.json() returns, {} when it raises; xml is what  *)
(* etree.fromstring returns, {} when it raises.  A document is a sequence  *)
(* of <<expression, value>> pairs: what each query finds in it.  rows is   *)
(* the number of rows the mapping makes of the body.  A field's value is   *)
(* {} for null.                                                            *)
(***************************************************************************)
\* Expressions jmespath and xpath reject.
BadExprs == {"a[", "//["}

\* d[k] = v on a dict kept as a sequence of <<key, value>> pairs.
DictSet(items, k, v) ==
    IF \E i \in 1..Len(items) : items[i][1] = k
    THEN [i \in 1..Len(items) |-> IF items[i][1] = k THEN <<k, v>> ELSE items[i]]
    ELSE Append(items, <<k, v>>)

\* d.get(k) on such a dict: {} when the key is absent.
DictGet(items, k) ==
    IF \E i \in 1..Len(items) : items[i][1] = k
    THEN Some(items[CHOOSE i \in 1..Len(items) : items[i][1] = k][2])
    ELSE None

\* {k.lower(): v for k, v in dict(resp.headers).items()}
LowerKeys(headers) ==
    LET RECURSIVE Build(_, _)
        Build(i, acc) ==
            IF i > Len(headers) THEN acc
            ELSE Build(i + 1, DictSet(acc, Lower(headers[i][1]), headers[i][2]))
    IN  Build(1, << >>)

\* jmespath.search(expr, doc): {} (null) when nothing is found; "raises"
\* is TRUE for an expression jmespath rejects.
Search(expr, doc) ==
    [raises |-> expr \in BadExprs,
     value |-> IF expr \in BadExprs THEN None ELSE DictGet(doc, expr)]

\* What the xml branch makes of the list xpath returns (the texts of the
\* matches): null for no match, the one text for one match, the list of
\* texts for more.
XPathValue(val) ==
    IF Len(val) = 0 THEN None
    ELSE IF Len(val) = 1 THEN Some(val[1])
    ELSE Some(val)

\* One pass of the loop as it would be if a field whose expression is
\* rejected were passed over.
ExtractFieldSkips(resp, f, st) ==
    LET expr == IF f.expr = None THEN "" ELSE Val(f.expr)
    IN  IF expr \in BadExprs THEN st
        ELSE [st EXCEPT !.out = DictSet(@, f.name,
                 CASE f.source = "status" -> Some(resp.status_code)
                   [] f.source = "header" ->
                         DictGet(LowerKeys(resp.headers), Lower(expr))
                   [] f.source = "json" ->
                         IF resp.json = None \/ expr = "" THEN None
                         ELSE DictGet(Val(resp.json), expr)
                   [] OTHER ->
                         IF resp.xml = None \/ expr = "" THEN None
                         ELSE IF DictGet(Val(resp.xml), expr) = None THEN None
                         ELSE XPathValue(Val(DictGet(Val(resp.xml), expr))))]

\* One pass of the loop of _extract_response_fields for the field f; st
\* holds out, json_doc and xml_root, and the calls of resp.json() and of
\* etree.fromstring made so far.
ExtractField(resp, f, st) ==
    LET expr == IF f.expr = None THEN "" ELSE Val(f.expr)
        json_doc == IF st.json_doc = None THEN resp.json ELSE st.json_doc
        xml_root == IF st.xml_root = None THEN resp.xml ELSE st.xml_root
    IN  CASE f.source = "status" ->
                [st EXCEPT !.out = DictSet(@, f.name, Some(resp.status_code))]
          [] f.source = "header" ->
                [st EXCEPT !.out = DictSet(@, f.name,
                                    DictGet(LowerKeys(resp.headers), Lower(expr)))]
          [] f.source = "json" ->
                [st EXCEPT
                   !.json_doc = json_doc,
                   !.json_parses = @ + (IF st.json_doc = None THEN 1 ELSE 0),
                   !.out = DictSet(@, f.name,
                              IF json_doc = None \/ expr = "" THEN None
                              ELSE IF Search(expr, Val(json_doc)).raises THEN None
                              ELSE Search(expr, Val(json_doc)).value)]
          [] f.source = "xml" ->
                [st EXCEPT
                   !.xml_root = xml_root,
                   !.xml_parses = @ + (IF st.xml_root = None THEN 1 ELSE 0),
                   !.out = DictSet(@, f.name,
                              IF xml_root = None \/ expr = "" THEN None
                              ELSE IF Search(expr, Val(xml_root)).raises THEN None
                              ELSE IF Search(expr, Val(xml_root)).value = None THEN None
                              ELSE XPathValue(Val(Search(expr, Val(xml_root)).value)))]
          [] OTHER -> [st EXCEPT !.out = DictSet(@, f.name, None)]

\* The loop of _extract_response_fields: its locals when it ends.
ExtractLoop(resp, fields) ==
    LET RECURSIVE Loop(_, _)
        Loop(i, st) ==
            IF i > Len(fields) THEN st
            ELSE Loop(i + 1, ExtractField(resp, fields[i], st))
    IN  Loop(1, [out |-> << >>, json_doc |-> None, xml_root |-> None,
                 json_parses |-> 0, xml_parses |-> 0])

\* _extract_response_fields: the name -> value dict, as <<name, value>> pairs.
_extract_response_fields(resp, fields) == ExtractLoop(resp, fields).out

(***************************************************************************)
(* The sink (engine/sinks.py).  A file is None (absent) or Some(lines).    *)
(***************************************************************************)
Lines(file) == IF file = None THEN << >> ELSE Val(file)

_write_ndjson(file, records, mode) ==
    IF mode = "overwrite" THEN Some(records) ELSE Some(Lines(file) \o records)

Header == [run |-> 0, job |-> 0, page |-> 0, idx |-> 0]

_write_csv(file, records, mode) ==
    LET header == ~(mode = "append" /\ file # None)
        body == IF header THEN <<Header>> \o records ELSE records
    IN  IF mode = "overwrite" THEN Some(body) ELSE Some(Lines(file) \o body)

\* write_records for the two supported sink types.
write_records(file, records, sink_type, mode) ==
    IF records = << >> THEN file
    ELSE IF sink_type = "ndjson" THEN _write_ndjson(file, records, mode)
    ELSE _write_csv(file, records, mode)

\* The file an open(path, "w" or "a") leaves before anything is written.
Opened(file, mode) ==
    IF mode = "overwrite" THEN Some(<< >>) ELSE Some(Lines(file))

\* The files a write_records that raises on rows that are not empty can
\* leave: the file as it was, when the failure comes before the file is
\* opened (os.makedirs, the open itself, the DataFrame); the opened file
\* with nothing written; the opened file with the rows (csv: the header and
\* the rows) written before the one that failed.
FailedWrites(file, records, sink_type, mode) ==
    {file, Opened(file, mode)}
        \cup {IF sink_type = "ndjson"
              THEN _write_ndjson(file, SubSeq(records, 1, k), mode)
              ELSE _write_csv(file, SubSeq(records, 1, k), mode) :
                k \in 0..(Len(records) - 1)}

\* The upstream API's pages: a page maps to no row, or to MaxRows rows.
PageSizes == {0, MaxRows}
FullPages == PageSizes \ {0}

\* The rows page `page` of run `run` of job `job` maps to.
Rows(run, job, page, n) ==
    [i \in 1..n |-> [run |-> run, job |-> job, page |-> page, idx |-> i]]

(***************************************************************************)
(* send() and _fetch_once (engine/http_client.py, engine/runner.py).       *)
(***************************************************************************)
\* stop_after_attempt of the retry decorator of send.
StopAfterAttempt == 5

\* The exceptions the retry decorator of send retries on.
Retryable == {"ConnectError", "ReadTimeout", "RemoteProtocolError"}

\* The exceptions an HTTP call raises: the three, and one of the others.
TransportErrors == Retryable \cup {"ConnectTimeout"}

\* The statuses of the responses: a success, a redirection (the client
\* of send() is made without follow_redirects, so it is returned as it
\* is), a client error and a server error.
Statuses == {200, 302, 404, 500}

\* The response of the upstream API to the request of a page: ok is
\* whether its body decodes, rows the rows the mapping makes of it.
PageResponse(code, ok, rows) ==
    [status_code |-> code,
     headers |-> << <<"X-Next", "more">> >>,
     json |-> IF ok THEN Some(<< <<"count", ToString(rows)>> >>) ELSE None,
     xml |-> None,
     rows |-> rows]

Responses ==
    {PageResponse(st, TRUE, n) : st \in Statuses, n \in PageSizes}
        \cup {PageResponse(st, FALSE, 0) : st \in Statuses}

\* What one HTTP call comes to: an exception, or a response.
Outcomes ==
    {[error |-> e, resp |-> None] : e \in TransportErrors}
        \cup {[error |-> "none", resp |-> Some(r)] : r \in Responses}

\* A call of send(): the HTTP calls made so far, how many of them raised
\* an exception that is retried, the request of the latest, what the
\* latest came to, and what send() came to ({} while it is retrying).
NoCall == [calls |-> 0, failures |-> 0, request |-> None, last |-> None,
           result |-> None]

\* One attempt of send() as it would be with reraise=False: when the
\* attempts are used up the decorator raises its own RetryError.
AttemptRetryError(c, src, context, outcome) ==
    LET calls == c.calls + 1
    IN  [calls |-> calls,
         failures |-> c.failures + (IF outcome.error \in Retryable THEN 1 ELSE 0),
         request |-> Some(Request(src.request, src.auth, context)),
         last |-> Some(outcome),
         result |-> IF outcome.error \in Retryable
                    THEN IF calls < StopAfterAttempt THEN None
                         ELSE Some([error |-> "RetryError", resp |-> None])
                    ELSE Some(outcome)]

\* One attempt of send(), with what its HTTP call comes to: the request is
\* built and sent.  A response is returned.  After an exception that is
\* retried the decorator calls again, until StopAfterAttempt attempts
\* were made, and then raises that exception (reraise=True); any other
\* exception leaves send() at once.
Attempt(c, src, context, outcome) ==
    LET calls == c.calls + 1
    IN  [calls |-> calls,
         failures |-> c.failures + (IF outcome.error \in Retryable THEN 1 ELSE 0),
         request |-> Some(Request(src.request, src.auth, context)),
         last |-> Some(outcome),
         result |-> IF outcome.error \in Retryable /\ calls < StopAfterAttempt
                    THEN None
                    ELSE Some(outcome)]

\* Everything a call of send() can come to.
SendResults == Outcomes

\* _fetch_once as it would be without raise_for_status: the body of a
\* response of any status is decoded and mapped.
FetchOnceAnyStatus(src, result) ==
    LET Raised(e) == [raised |-> TRUE, error |-> e, rows |-> 0, resp |-> None]
        body == IF src.input_format = "json" THEN Val(result.resp).json
                ELSE Val(result.resp).xml
    IN  IF result.error # "none" THEN Raised(result.error)
        ELSE IF body = None THEN Raised("DecodeError")
        ELSE [raised |-> FALSE, error |-> "none", rows |-> Val(result.resp).rows,
              resp |-> result.resp]

\* _fetch_once on what send() came to: the exception of send(), of
\* raise_for_status (HTTPStatusError on every status that is not 2xx:
\* 1xx, 3xx, 4xx and 5xx), or of decoding the body; or the mapped rows
\* and the response.
FetchOnce(src, result) ==
    LET Raised(e) == [raised |-> TRUE, error |-> e, rows |-> 0, resp |-> None]
        body == IF src.input_format = "json" THEN Val(result.resp).json
                ELSE Val(result.resp).xml
    IN  IF result.error # "none" THEN Raised(result.error)
        ELSE IF Val(result.resp).status_code \notin 200..299
             THEN Raised("HTTPStatusError")
        ELSE IF body = None THEN Raised("DecodeError")
        ELSE [raised |-> FALSE, error |-> "none", rows |-> Val(result.resp).rows,
              resp |-> result.resp]

(***************************************************************************)
(* The listener's state.                                                   *)
(***************************************************************************)
\* <<the queue_name argument, self.input_queue>>
QueueConfigs ==
    { <<None, None>>, <<Some(""), None>>, <<None, Some("jobs")>>,
      <<Some("other"), None>>, <<Some("other"), Some("jobs")>> }

\* <<the listen_duration_seconds argument, self.listen_duration_seconds>>
DurationConfigs ==
    { <<None, None>>, <<None, Some(0)>>, <<None, Some(ListenDuration)>>,
      <<Some(ListenDuration), None>>, <<Some(0), Some(ListenDuration)>> }

\* self.output_queue
OutputQueues == {None, Some("results")}

\* The settings listen_queue is called with, as <<queue names, durations,
\* output queue>>: every duration and output queue on the instance's input
\* queue, and every way of naming the input queue with a duration that
\* elapses and an output queue for the warning that names the queue.
ListenConfigs ==
    {<<q, c, o>> : q \in {<<None, Some("jobs")>>}, c \in DurationConfigs,
                   o \in OutputQueues}
        \cup {<<q, <<None, Some(ListenDuration)>>, Some("results")>> :
                q \in QueueConfigs}

\* A delivery: one message handed out by receive_messages, and what the
\* listener did with it.  run numbers the deliveries.
NoDelivery ==
    [job |-> 0, run |-> 0, decoded |-> FALSE, ran |-> FALSE, runOk |-> FALSE,
     handled |-> FALSE, raised |-> "none", published |-> "none",
     settle |-> "none"]

Delivery(x) == [NoDelivery EXCEPT !.job = x.job, !.run = x.run]

\* The locals of run().
NoRun ==
    [src |-> None, page |-> 0, total |-> 0, sample |-> None, last_resp |-> None,
     fetched |-> << >>, metadata |-> None]

Init ==
    /\ pc = "start"
    /\ exitReason = "none"
    /\ \E c \in ListenConfigs :
          /\ argQueue = c[1][1]
          /\ inputQueue = c[1][2]
          /\ argDuration = c[2][1]
          /\ instDuration = c[2][2]
          /\ outputQueue = c[3]
    /\ endTime = None
    /\ clock = 0
    /\ payload = [m \in Jobs |-> NoPayload]
    /\ status = [m \in Jobs |-> "new"]
    /\ receives = 0
    /\ batch = << >>
    /\ d = NoDelivery
    /\ last = NoDelivery
    /\ okRuns = [m \in Jobs |-> 0]
    /\ rn = NoRun
    /\ sink = None
    /\ outbox = << >>
    /\ call = NoCall

\* effective_duration of listen_queue: the argument overrides the instance.
EffectiveDuration == IF argDuration # None THEN argDuration ELSE instDuration

\* end_time of listen_queue.
EndTime(eff, now) ==
    IF eff # None /\ Val(eff) # 0 /\ Val(eff) > 0 THEN Some(now + Val(eff)) ELSE None

Config == <<inputQueue, argQueue, outputQueue, instDuration, argDuration>>

\* queue_name of listen_queue: `queue_name or self.input_queue`.
QueueName == IF Truthy(argQueue) THEN argQueue ELSE inputQueue
Queue == <<payload, status, receives, batch>>

\* listen_queue up to the loop: the queue is chosen and end_time is set.
ListenQueue ==
    /\ pc = "start"
    /\ \/ /\ ~Truthy(QueueName)
          /\ pc' = "exited"
          /\ exitReason' = "no_input_queue"
          /\ UNCHANGED endTime
       \/ /\ Truthy(QueueName)
          /\ endTime' = EndTime(EffectiveDuration, clock)
          /\ pc' = "check"
          /\ UNCHANGED exitReason
    /\ UNCHANGED <<Config, call, Queue, okRuns, clock, d, last, rn, sink, outbox>>

\* The check at the top of the loop.
TimedOut == endTime # None /\ clock >= Val(endTime)

CheckTimeout ==
    /\ pc = "check"
    /\ pc' = IF TimedOut THEN "warn" ELSE "receive"
    /\ UNCHANGED <<exitReason, Config, call, Queue, okRuns, endTime, clock, d, last, rn,
                   sink, outbox>>

Warning(reason, queue_name, duration) ==
    [queue |-> Val(outputQueue), type |-> "warning", job |-> 0, run |-> 0,
     total |-> 0, sample |-> None, reason |-> reason,
     input_queue |-> queue_name, duration |-> duration]

\* _send_warning_summary("listen_timeout", ...): nothing is sent without an
\* output queue; a failure to send is logged and swallowed.
SendWarningSummary ==
    /\ pc = "warn"
    /\ \/ /\ ~Truthy(outputQueue)
          /\ UNCHANGED outbox
       \/ /\ Truthy(outputQueue)
          /\ outbox' = Append(outbox,
                Warning("listen_timeout", Val(QueueName), Val(EffectiveDuration)))
       \/ /\ Truthy(outputQueue)
          /\ UNCHANGED outbox
    /\ pc' = "warned"
    /\ UNCHANGED <<exitReason, Config, call, Queue, okRuns, endTime, clock, d, last, rn,
                   sink>>

\* The timeout branch as it would be without its break: the loop goes on
\* to receive.
BreakOnTimeoutMissing ==
    /\ pc = "warned"
    /\ pc' = "receive"
    /\ UNCHANGED <<exitReason, Config, call, Queue, okRuns, endTime, clock, d, last, rn,
                   sink, outbox>>

\* The break after the warning.
BreakOnTimeout ==
    /\ pc = "warned"
    /\ pc' = "exited"
    /\ exitReason' = "timeout"
    /\ UNCHANGED <<Config, call, Queue, okRuns, endTime, clock, d, last, rn, sink, outbox>>

\* The for loop takes up the first of the received messages.
StartLoop(messages) ==
    /\ d' = Delivery(Head(messages))
    /\ batch' = Tail(messages)
    /\ pc' = "decode"

\* The receiver hands out message m; up to max_message_count messages make
\* one result of receive_messages.
Take(m) ==
    /\ Len(batch) < MaxMessageCount
    /\ receives < MaxReceives
    /\ status' = [status EXCEPT ![m] = "locked"]
    /\ receives' = receives + 1
    /\ LET messages == Append(batch, [job |-> m, run |-> receives + 1])
       IN  IF Len(messages) = MaxMessageCount
           THEN StartLoop(messages)
           ELSE /\ batch' = messages
                /\ UNCHANGED <<pc, d>>

\* receiver.receive_messages(max_message_count=1, ...): it raises, or it
\* returns the messages the queue had within max_wait_time, fresh from the
\* producer or redelivered.
ReceiveMessages ==
    /\ pc = "receive"
    /\ \/ /\ batch = << >>
          /\ pc' = "receive_error"
          /\ UNCHANGED <<Queue, d>>
       \/ /\ IF batch = << >>
             THEN pc' = "check" /\ UNCHANGED <<batch, d>>
             ELSE StartLoop(batch)
          /\ UNCHANGED <<payload, status, receives>>
       \/ \E m \in Jobs, p \in Payloads :
             /\ status[m] = "new"
             /\ \A k \in Jobs : k < m => status[k] # "new"
             /\ payload' = [payload EXCEPT ![m] = p]
             /\ Take(m)
       \/ \E m \in Jobs :
             /\ status[m] = "available"
             /\ Take(m)
             /\ UNCHANGED payload
    /\ UNCHANGED <<exitReason, Config, call, okRuns, endTime, clock, last, rn, sink,
                   outbox>>

\* The last except clause of the loop: the error of receive_messages is
\* logged and the loop goes on.
ReceiveError ==
    /\ pc = "receive_error"
    /\ pc' = "check"
    /\ UNCHANGED <<exitReason, Config, call, Queue, okRuns, endTime, clock, d, last, rn,
                   sink, outbox>>

\* The except clause of the for loop's body: the exception is logged and
\* the message is abandoned next.
Raise(kind) ==
    /\ d' = [d EXCEPT !.raised = kind]
    /\ pc' = "abandon"

\* _parse_message_body: json.loads of the body.
ParseMessageBody ==
    /\ pc = "decode"
    /\ \/ /\ payload[d.job].json = "invalid"
          /\ Raise("decode")
       \/ /\ payload[d.job].json # "invalid"
          /\ d' = [d EXCEPT !.decoded = TRUE]
          /\ pc' = "handle"
    /\ UNCHANGED <<exitReason, Config, call, Queue, okRuns, endTime, clock, last, rn,
                   sink, outbox>>

\* The checks of handle_message before it calls run.
PayloadValid(p) ==
    /\ p.json = "object"
    /\ p.config # None
    /\ p.mls # "absent"
    /\ CoerceMls(p.mls) # None

\* str(uuid.uuid4()): the request id handle_message makes up.
Uuid4 == CtxStr("uuid4")

\* context of handle_message: every key of the payload but 'config' and
\* 'mls', with request_id set to the payload's, or made up when the payload
\* has none or a false one (null, false, 0, the empty string).
Context(p) ==
    LET request_id == DictGet(p.extra, "request_id")
        keys == {p.extra[i][1] : i \in 1..Len(p.extra)}
                    \cup (IF p.output_queue # None THEN {"output_queue"} ELSE {})
                    \cup {"request_id"}
    IN  [k \in keys |->
            CASE k = "request_id" ->
                    IF request_id # None /\ TruthyValue(Val(request_id))
                    THEN Val(request_id) ELSE Uuid4
              [] k = "output_queue" -> Val(p.output_queue)
              [] OTHER -> Val(DictGet(p.extra, k))]

\* handle_message as it would be if a payload that fails the checks made it
\* return instead of raise.
HandleMessageReturns ==
    /\ pc = "handle"
    /\ \/ /\ ~PayloadValid(payload[d.job])
          /\ d' = [d EXCEPT !.handled = TRUE]
          /\ pc' = "complete"
       \/ /\ PayloadValid(payload[d.job])
          /\ d' = [d EXCEPT !.ran = TRUE]
          /\ pc' = "load"
    /\ UNCHANGED <<exitReason, Config, call, Queue, okRuns, endTime, clock, last, rn,
                   sink, outbox>>

\* handle_message up to the call of run.
HandleMessage ==
    /\ pc = "handle"
    /\ \/ /\ ~PayloadValid(payload[d.job])
          /\ Raise("validate")
       \/ /\ PayloadValid(payload[d.job])
          /\ d' = [d EXCEPT !.ran = TRUE]
          /\ pc' = "load"
    /\ UNCHANGED <<exitReason, Config, call, Queue, okRuns, endTime, clock, last, rn,
                   sink, outbox>>

\* A delivery ends with the listener: its record is kept, and no message
\* is in progress any more.
Done(entry) ==
    /\ last' = entry
    /\ d' = NoDelivery
    /\ rn' = NoRun

\* A delivery ends and the for loop goes on: with the next received message,
\* or, at its end, with the next pass of the while loop.
NextMessage(entry) ==
    /\ last' = entry
    /\ rn' = NoRun
    /\ IF batch = << >>
       THEN /\ d' = NoDelivery
            /\ pc' = "check"
            /\ UNCHANGED batch
       ELSE StartLoop(batch)

\* The test of run() for the pagination loop.
Paginated(src) == src.paginate # None /\ Val(src.paginate).type = "page"

\* page and max_pages of run(): int(src.paginate.get(..., 1)).
PageStart(src) ==
    IF Val(src.paginate).start = None THEN 1 ELSE Val(Val(src.paginate).start)
PageMax(src) ==
    IF Val(src.paginate).max_pages = None THEN 1 ELSE Val(Val(src.paginate).max_pages)

\* The locals of run() when the source is resolved.
StartRun(src) ==
    [NoRun EXCEPT !.src = Some(src),
                  !.page = IF Paginated(src) THEN PageStart(src) ELSE 0]

\* run() up to the loop: the configuration is loaded and validated and the
\* source is resolved.  SystemExit is no Exception: no except clause of
\* listen_queue catches it, and it ends the listener.
RunLoad ==
    /\ pc = "load"
    /\ LET p == payload[d.job]
           app == AppConfig(Val(p.config))
           src == IF app = None THEN None
                  ELSE GetSource(Val(app), Val(CoerceMls(p.mls)))
       IN  \/ /\ app = None
              /\ Raise("pipeline")
              /\ UNCHANGED <<exitReason, last, rn>>
           \/ /\ app # None
              /\ src = None
              /\ pc' = "exited"
              /\ exitReason' = "system_exit"
              /\ Done([d EXCEPT !.raised = "system_exit"])
           \/ /\ app # None
              /\ src # None
              /\ rn' = StartRun(Val(src))
              /\ pc' = "fetch"
              /\ UNCHANGED <<exitReason, last, d>>
    /\ UNCHANGED <<Config, call, Queue, okRuns, endTime, clock, sink, outbox>>

\* What a call of _fetch_once of the run can come to.
Fetches == {FetchOnce(Val(rn.src), r) : r \in SendResults}

\* The context run() passes to _fetch_once.
FetchContext ==
    IF Paginated(Val(rn.src)) THEN PageContext(Context(payload[d.job]), rn.page)
    ELSE Context(payload[d.job])

\* The sink mode run() passes to write_records for a page.
PageMode(page, mode) ==
    IF page > 1 /\ mode = "overwrite" THEN "append" ELSE mode

\* What run() notes of a fetch: the page of its context, the rows it got
\* and the mode they were written with ("none": not written).
Fetched(f, mode) ==
    [page |-> IF "page" \in DOMAIN FetchContext THEN Some(FetchContext.page.n) ELSE None,
     raised |-> f.raised, rows |-> f.rows, mode |-> mode]

\* The pagination loop as it would be without the test of its counter.
LoopNeverEnds == TRUE

\* The test of the pagination loop of run(): page <= max_pages.
LoopGoesOn == rn.page <= PageMax(Val(rn.src))

\* The pagination loop of run() ends on its counter.
PageLoopEnds ==
    /\ ~LoopGoesOn
    /\ pc' = "finish"
    /\ UNCHANGED <<rn, sink, d>>

\* One pass of the pagination loop as it would be if an empty page did
\* not end it.
PageFetchedNoBreak(f) ==
    LET src == Val(rn.src)
        recs == Rows(d.run, d.job, rn.page, f.rows)
        mode == PageMode(rn.page, src.sink.mode)
    IN  /\ LoopGoesOn
        /\ \/ /\ f.raised
              /\ rn' = [rn EXCEPT !.fetched = Append(@, Fetched(f, "none"))]
              /\ Raise("pipeline")
              /\ UNCHANGED sink
           \/ /\ ~f.raised
              /\ sink' = write_records(sink, recs, src.sink.type, mode)
              /\ rn' = [rn EXCEPT
                          !.last_resp = f.resp,
                          !.sample = IF rn.sample = None /\ f.rows > 0
                                     THEN Some(recs[1]) ELSE rn.sample,
                          !.total = rn.total + f.rows,
                          !.page = rn.page + 1,
                          !.fetched = Append(@, Fetched(f,
                                        IF f.rows > 0 THEN mode ELSE "none"))]
              /\ pc' = "fetch"
              /\ UNCHANGED d

\* One pass of the pagination loop as it would be if the sample were taken
\* from every page.
PageFetchedLastSample(f) ==
    LET src == Val(rn.src)
        recs == Rows(d.run, d.job, rn.page, f.rows)
        mode == PageMode(rn.page, src.sink.mode)
    IN  /\ LoopGoesOn
        /\ \/ /\ f.raised
              /\ rn' = [rn EXCEPT !.fetched = Append(@, Fetched(f, "none"))]
              /\ Raise("pipeline")
              /\ UNCHANGED sink
           \/ /\ ~f.raised /\ f.rows = 0
              /\ rn' = [rn EXCEPT !.last_resp = f.resp,
                                  !.fetched = Append(@, Fetched(f, "none"))]
              /\ pc' = "finish"
              /\ UNCHANGED <<sink, d>>
           \/ /\ ~f.raised /\ f.rows > 0
              /\ rn' = [rn EXCEPT
                          !.last_resp = f.resp,
                          !.sample = Some(recs[1]),
                          !.fetched = Append(@, Fetched(f, "none"))]
              /\ Raise("pipeline")
              /\ sink' \in FailedWrites(sink, recs, src.sink.type, mode)
           \/ /\ ~f.raised /\ f.rows > 0
              /\ sink' = write_records(sink, recs, src.sink.type, mode)
              /\ rn' = [rn EXCEPT
                          !.last_resp = f.resp,
                          !.sample = Some(recs[1]),
                          !.total = rn.total + f.rows,
                          !.page = rn.page + 1,
                          !.fetched = Append(@, Fetched(f, mode))]
              /\ pc' = "fetch"
              /\ UNCHANGED d

\* One pass of the pagination loop of run() after _fetch_once gave f: the
\* rows of the page are written.
PageFetched(f) ==
    LET src == Val(rn.src)
        recs == Rows(d.run, d.job, rn.page, f.rows)
        mode == PageMode(rn.page, src.sink.mode)
    IN  /\ LoopGoesOn
        /\ \/ /\ f.raised                        \* _fetch_once raises
              /\ rn' = [rn EXCEPT !.fetched = Append(@, Fetched(f, "none"))]
              /\ Raise("pipeline")
              /\ UNCHANGED sink
           \/ /\ ~f.raised /\ f.rows = 0         \* an empty page: break
              /\ rn' = [rn EXCEPT !.last_resp = f.resp,
                                  !.fetched = Append(@, Fetched(f, "none"))]
              /\ pc' = "finish"
              /\ UNCHANGED <<sink, d>>
           \/ /\ ~f.raised /\ f.rows > 0         \* write_records raises
              /\ rn' = [rn EXCEPT
                          !.last_resp = f.resp,
                          !.sample = IF rn.sample = None THEN Some(recs[1])
                                     ELSE rn.sample,
                          !.fetched = Append(@, Fetched(f, "none"))]
              /\ Raise("pipeline")
              /\ sink' \in FailedWrites(sink, recs, src.sink.type, mode)
           \/ /\ ~f.raised /\ f.rows > 0         \* the page is written
              /\ sink' = write_records(sink, recs, src.sink.type, mode)
              /\ rn' = [rn EXCEPT
                          !.last_resp = f.resp,
                          !.sample = IF rn.sample = None THEN Some(recs[1])
                                     ELSE rn.sample,
                          !.total = rn.total + f.rows,
                          !.page = rn.page + 1,
                          !.fetched = Append(@, Fetched(f, mode))]
              /\ pc' = "fetch"
              /\ UNCHANGED d

\* The branch of run() for a source without pagination, after
\* _fetch_once gave f.
OnceFetched(f) ==
    LET src == Val(rn.src)
        recs == Rows(d.run, d.job, 0, f.rows)
    IN  \/ /\ f.raised                           \* _fetch_once raises
           /\ rn' = [rn EXCEPT !.fetched = Append(@, Fetched(f, "none"))]
           /\ Raise("pipeline")
           /\ UNCHANGED sink
        \/ /\ ~f.raised /\ f.rows > 0            \* write_records raises
           /\ rn' = [rn EXCEPT !.last_resp = f.resp,
                               !.sample = Some(recs[1]),
                               !.fetched = Append(@, Fetched(f, "none"))]
           /\ Raise("pipeline")
           /\ sink' \in FailedWrites(sink, recs, src.sink.type, src.sink.mode)
        \/ /\ ~f.raised
           /\ sink' = write_records(sink, recs, src.sink.type, src.sink.mode)
           /\ rn' = [rn EXCEPT
                       !.last_resp = f.resp,
                       !.sample = IF f.rows > 0 THEN Some(recs[1]) ELSE None,
                       !.total = f.rows,
                       !.fetched = Append(@, Fetched(f,
                                      IF f.rows > 0 THEN src.sink.mode ELSE "none"))]
           /\ pc' = "finish"
           /\ UNCHANGED d

\* The pagination loop of run(), a pass at a time, each with what its
\* _fetch_once comes to.
RunPage ==
    /\ pc = "fetch"
    /\ rn.src # None
    /\ Paginated(Val(rn.src))
    /\ \/ PageLoopEnds
       \/ \E f \in Fetches : PageFetched(f)
    /\ UNCHANGED <<exitReason, Config, call, Queue, okRuns, endTime, clock, last,
                   outbox>>

\* The branch of run() for a source without pagination.
RunOnce ==
    /\ pc = "fetch"
    /\ rn.src # None
    /\ ~Paginated(Val(rn.src))
    /\ \E f \in Fetches : OnceFetched(f)
    /\ UNCHANGED <<exitReason, Config, call, Queue, okRuns, endTime, clock, last,
                   outbox>>

\* metadata of run(): the sample, and response_fields when the source
\* declares a response and a response was kept.
Metadata ==
    [sample |-> rn.sample,
     response_fields |->
        IF Val(rn.src).response # None /\ rn.last_resp # None
        THEN Some(_extract_response_fields(Val(rn.last_resp),
                                           Val(Val(rn.src).response)))
        ELSE None]

\* The end of run(): the metadata is built and (total, metadata) returned.
RunReturn ==
    /\ pc = "finish"
    /\ d' = [d EXCEPT !.runOk = TRUE]
    /\ rn' = [rn EXCEPT !.metadata = Some(Metadata)]
    /\ okRuns' = [okRuns EXCEPT ![d.job] = @ + 1]
    /\ pc' = "publish"
    /\ UNCHANGED <<exitReason, Config, call, Queue, endTime, clock, last, sink,
                   outbox>>

\* out_queue of handle_message: `payload.get("output_queue") or
\* self.output_queue`, the message's override when it is there and true (a
\* queue name, in the payloads of the model).
OutQueue(p) ==
    IF p.output_queue # None /\ TruthyValue(Val(p.output_queue))
    THEN Some(Val(p.output_queue).s) ELSE outputQueue

Summary(queue, job, run, total, sample) ==
    [queue |-> queue, type |-> "summary", job |-> job, run |-> run,
     total |-> total, sample |-> sample, reason |-> "",
     input_queue |-> "", duration |-> 0]

\* handle_message as it would be if it sent the summary once more.
PublishSummaryTwice ==
    /\ pc = "publish"
    /\ LET out_queue == OutQueue(payload[d.job])
           summary == IF ~Truthy(out_queue) THEN << >>
                      ELSE <<Summary(Val(out_queue), d.job, d.run, rn.total, rn.sample)>>
       IN  \/ /\ ~Truthy(out_queue)
              /\ d' = [d EXCEPT !.handled = TRUE, !.published = "skipped"]
              /\ UNCHANGED outbox
           \/ /\ Truthy(out_queue)
              /\ outbox' = outbox \o summary \o summary
              /\ d' = [d EXCEPT !.handled = TRUE, !.published = "sent"]
           \/ /\ Truthy(out_queue)
              /\ d' = [d EXCEPT !.handled = TRUE, !.published = "failed"]
              /\ UNCHANGED outbox
    /\ pc' = "complete"
    /\ UNCHANGED <<exitReason, Config, call, Queue, okRuns, endTime, clock, last, rn,
                   sink>>

\* handle_message as it would be if a failure to send the summary were
\* raised instead of swallowed.
PublishSummaryRaises ==
    /\ pc = "publish"
    /\ LET out_queue == OutQueue(payload[d.job])
       IN  \/ /\ ~Truthy(out_queue)
              /\ d' = [d EXCEPT !.handled = TRUE, !.published = "skipped"]
              /\ pc' = "complete"
              /\ UNCHANGED outbox
           \/ /\ Truthy(out_queue)
              /\ outbox' = Append(outbox,
                    Summary(Val(out_queue), d.job, d.run, rn.total, rn.sample))
              /\ d' = [d EXCEPT !.handled = TRUE, !.published = "sent"]
              /\ pc' = "complete"
           \/ /\ Truthy(out_queue)
              /\ d' = [d EXCEPT !.published = "failed", !.raised = "publish"]
              /\ pc' = "abandon"
              /\ UNCHANGED outbox
    /\ UNCHANGED <<exitReason, Config, call, Queue, okRuns, endTime, clock, last, rn,
                   sink>>

\* The rest of handle_message: the summary is sent when an output queue is
\* given; a failure to send it is logged and swallowed.
PublishSummary ==
    /\ pc = "publish"
    /\ LET out_queue == OutQueue(payload[d.job])
       IN  \/ /\ ~Truthy(out_queue)
              /\ d' = [d EXCEPT !.handled = TRUE, !.published = "skipped"]
              /\ UNCHANGED outbox
           \/ /\ Truthy(out_queue)
              /\ outbox' = Append(outbox,
                    Summary(Val(out_queue), d.job, d.run, rn.total, rn.sample))
              /\ d' = [d EXCEPT !.handled = TRUE, !.published = "sent"]
           \/ /\ Truthy(out_queue)
              /\ d' = [d EXCEPT !.handled = TRUE, !.published = "failed"]
              /\ UNCHANGED outbox
    /\ pc' = "complete"
    /\ UNCHANGED <<exitReason, Config, call, Queue, okRuns, endTime, clock, last, rn,
                   sink>>

\* receiver.complete_message(msg); when it raises, the except clause runs.
CompleteMessage ==
    /\ pc = "complete"
    /\ \/ /\ status' = [status EXCEPT ![d.job] = "completed"]
          /\ NextMessage([d EXCEPT !.settle = "completed"])
       \/ /\ Raise("complete")
          /\ UNCHANGED <<status, batch, last, rn>>
    /\ UNCHANGED <<exitReason, Config, call, payload, receives, okRuns, endTime, clock,
                   sink, outbox>>

\* receiver.abandon_message(msg) in the except clause: the queue hands the
\* message out again.  When the call raises in turn, that is logged and the
\* loop goes on: the message is neither completed nor abandoned, and stays
\* locked.
AbandonMessage ==
    /\ pc = "abandon"
    /\ \/ /\ status' = [status EXCEPT ![d.job] = "available"]
          /\ NextMessage([d EXCEPT !.settle = "abandoned"])
       \/ /\ UNCHANGED status
          /\ NextMessage([d EXCEPT !.settle = "abandon_raised"])
    /\ UNCHANGED <<exitReason, Config, call, payload, receives, okRuns, endTime, clock,
                   sink, outbox>>

\* The positions inside the try statement of the loop.
InTry == {"receive", "decode", "handle", "load", "fetch", "finish", "publish",
          "complete", "abandon"}

\* The positions of the loop outside its try statement: the check of the
\* timeout with its warning, and the except clause for receive errors.
OutOfTry == {"check", "warn", "warned", "receive_error"}

\* The interrupt as it would be if the except clause that catches it sent
\* a warning before the break.
InterruptWarns ==
    /\ pc \in InTry \cup OutOfTry
    /\ pc' = "exited"
    /\ exitReason' = IF pc \in InTry THEN "interrupt" ELSE "interrupt_uncaught"
    /\ IF d.job # 0
       THEN Done([d EXCEPT !.raised = "interrupt"])
       ELSE UNCHANGED <<d, last, rn>>
    /\ outbox' = IF pc \in InTry /\ Truthy(outputQueue)
                 THEN Append(outbox, Warning("interrupted", Val(QueueName), 0))
                 ELSE outbox
    /\ UNCHANGED <<Config, call, Queue, okRuns, endTime, clock, sink>>

\* A KeyboardInterrupt arrives.  Inside the try statement the listener
\* catches it and breaks; outside nothing catches it and it leaves
\* listen_queue.  A message in progress stays as it is, locked.
Interrupt ==
    /\ pc \in InTry \cup OutOfTry
    /\ pc' = "exited"
    /\ exitReason' = IF pc \in InTry THEN "interrupt" ELSE "interrupt_uncaught"
    /\ IF d.job # 0
       THEN Done([d EXCEPT !.raised = "interrupt"])
       ELSE UNCHANGED <<d, last, rn>>
    /\ UNCHANGED <<Config, call, Queue, okRuns, endTime, clock, sink, outbox>>

\* Time passes.  Only the check against end_time reads the clock, so its
\* advance is followed while there is an end_time, and up to MaxTime.
Tick ==
    /\ pc # "exited"
    /\ endTime # None
    /\ clock < MaxTime
    /\ clock' = clock + 1
    /\ UNCHANGED <<pc, exitReason, Config, call, Queue, okRuns, endTime, d, last, rn,
                   sink, outbox>>

Next ==
    \/ ListenQueue
    \/ CheckTimeout
    \/ SendWarningSummary
    \/ BreakOnTimeout
    \/ ReceiveMessages
    \/ ReceiveError
    \/ ParseMessageBody
    \/ HandleMessage
    \/ RunLoad
    \/ RunPage
    \/ RunOnce
    \/ RunReturn
    \/ PublishSummary
    \/ CompleteMessage
    \/ AbandonMessage
    \/ Interrupt
    \/ Tick

Spec == Init /\ [][Next]_vars

\* The steps of the program itself, which it goes on taking.
Program ==
    \/ ListenQueue
    \/ CheckTimeout
    \/ SendWarningSummary
    \/ BreakOnTimeout
    \/ ReceiveMessages
    \/ ReceiveError
    \/ ParseMessageBody
    \/ HandleMessage
    \/ RunLoad
    \/ RunPage
    \/ RunOnce
    \/ RunReturn
    \/ PublishSummary
    \/ CompleteMessage
    \/ AbandonMessage

\* The program runs on and time passes; whether an interrupt comes is open.
FairSpec == Spec /\ WF_vars(Program) /\ WF_vars(Tick)

(***************************************************************************)
(* run() on its own, for every kind of source, with the HTTP calls of      *)
(* send() a step each: the listener is in a delivery whose source is       *)
(* resolved, and the delivery is followed until run() returns or raises.   *)
(***************************************************************************)
\* The pages a pagination may start at, and the values of its max_pages.
StartPages == 0..(MaxPages + 1)
PageCaps == 0..MaxPages

Paginations ==
    {None, Some(PageDict("cursor", Some(1), Some(MaxPages)))}
        \cup {Some(PageDict("page", st, mx)) :
                st \in {None} \cup {Some(n) : n \in StartPages},
                mx \in {None} \cup {Some(n) : n \in PageCaps}}

RunSources ==
    {[name |-> "listings", mls_id |-> 7, auth |-> AuthBearer,
      input_format |-> "json", request |-> rq, response |-> rs,
      paginate |-> pg,
      sink |-> [type |-> ty, path |-> SinkPath, mode |-> mo]] :
        rq \in {GetRequest, PostRequest}, rs \in {None, Some(StatusFields)},
        pg \in Paginations, ty \in {"ndjson", "csv"},
        mo \in {"overwrite", "append"}}

\* A row an earlier run left in the sink file.
OldRow == [run |-> 0, job |-> 0, page |-> 0, idx |-> 1]

\* The sink file an earlier run left.
OldFile(sink_type) ==
    IF sink_type = "csv" THEN Some(<<Header, OldRow>>) ELSE Some(<<OldRow>>)

\* The payloads of the messages run() is called for: one with the required
\* keys alone, one that brings a request id, an output queue and values
\* for names the request templates use, and one whose request id is 0 and
\* whose output queue is null.
RunPayloads ==
    { [json |-> "object", config |-> Some("run.yaml"), mls |-> "int7",
       output_queue |-> None, extra |-> << >>],
      [json |-> "object", config |-> Some("run.yaml"), mls |-> "int7",
       output_queue |-> Some(CtxStr("override")),
       extra |-> << <<"request_id", CtxStr("req-9")>>,
                    <<"since", CtxStr("2024-01-01")>>,
                    <<"page", CtxNum(9)>> >>],
      [json |-> "object", config |-> Some("run.yaml"), mls |-> "int7",
       output_queue |-> Some(CtxNull),
       extra |-> << <<"request_id", CtxNum(0)>>,
                    <<"since", CtxBool(FALSE)>> >>] }

InitRun ==
    /\ pc = "fetch"
    /\ exitReason = "none"
    /\ inputQueue = Some("jobs")
    /\ argQueue = None
    /\ outputQueue = None
    /\ argDuration = None
    /\ instDuration = None
    /\ endTime = None
    /\ clock = 0
    /\ \E p \in RunPayloads : payload = [m \in Jobs |-> IF m = 1 THEN p ELSE NoPayload]
    /\ status = [m \in Jobs |-> IF m = 1 THEN "locked" ELSE "new"]
    /\ receives = 1
    /\ batch = << >>
    /\ d = [Delivery([job |-> 1, run |-> 1]) EXCEPT !.decoded = TRUE, !.ran = TRUE]
    /\ last = NoDelivery
    /\ okRuns = [m \in Jobs |-> 0]
    /\ \E src \in RunSources :
          /\ rn = StartRun(src)
          /\ sink \in {None, OldFile(src.sink.type)}
    /\ outbox = << >>
    /\ call = NoCall

\* An HTTP call of send(), made for the _fetch_once of run().
send ==
    /\ pc = "fetch"
    /\ rn.src # None
    /\ Paginated(Val(rn.src)) => LoopGoesOn
    /\ call.result = None
    /\ \E outcome \in Outcomes :
          call' = Attempt(call, Val(rn.src), FetchContext, outcome)
    /\ UNCHANGED <<pc, exitReason, Config, Queue, okRuns, endTime, clock, d, last,
                   rn, sink, outbox>>

\* The call of send() is over when _fetch_once returns; what it came to
\* stays to be seen when run() raises.
AfterFetch == call' = IF d'.raised # "none" THEN call ELSE NoCall

\* The pagination loop of run(), a pass at a time, on what send() came to.
RunPageSent ==
    /\ pc = "fetch"
    /\ rn.src # None
    /\ Paginated(Val(rn.src))
    /\ \/ /\ PageLoopEnds
          /\ UNCHANGED call
       \/ /\ call.result # None
          /\ PageFetched(FetchOnce(Val(rn.src), Val(call.result)))
          /\ AfterFetch
    /\ UNCHANGED <<exitReason, Config, Queue, okRuns, endTime, clock, last, outbox>>

\* The branch of run() for a source without pagination, on what send()
\* came to.
RunOnceSent ==
    /\ pc = "fetch"
    /\ rn.src # None
    /\ ~Paginated(Val(rn.src))
    /\ call.result # None
    /\ OnceFetched(FetchOnce(Val(rn.src), Val(call.result)))
    /\ AfterFetch
    /\ UNCHANGED <<exitReason, Config, Queue, okRuns, endTime, clock, last, outbox>>

\* The delivery is at the end of what is followed of it: run() has
\* returned, or has raised.
RunOver == pc \in {"publish", "abandon"}

NextRun ==
    \/ send
    \/ RunPageSent
    \/ RunOnceSent
    \/ RunReturn

RunSpec == InitRun /\ [][NextRun]_vars

\* run() goes on taking its steps.
FairRunSpec == RunSpec /\ WF_vars(NextRun)

(***************************************************************************)
(* The functions of the pipeline applied on their own: AppConfig on a      *)
(* list of source definitions, _get_source on a configuration and an id,   *)
(* _extract_response_fields on a response and the fields of a              *)
(* ResponseSpec.  A call holds the function, its arguments, and its        *)
(* result once it has returned or raised.                                  *)
(***************************************************************************)
\* The longest list of source definitions, and of response fields.
MaxSources == 3
MaxFields == 2

\* The sequences of at most n elements of S.
SeqsUpTo(S, n) == UNION {[1..k -> S] : k \in 0..n}

\* Source definitions, as far as AppConfig and _get_source look at them.
SourceDefs == [name : {"listings", "Default", "default"}, mls_id : {0, 7, 8}]
SourceLists == SeqsUpTo(SourceDefs, MaxSources)

\* The ids a message may ask for.
RequestedIds == {0, 7, 99}

\* The fields a ResponseSpec may declare: a status, headers asked for in
\* another case than the response's, JSON and XML queries that find
\* something (XML: one match, or two), that find nothing, that are
\* rejected, and a field without expression.
FieldKinds ==
    {<<"status", None>>,
     <<"header", Some("X-NEXT")>>, <<"header", Some("etag")>>,
     <<"json", Some("count")>>, <<"json", Some("a[")>>, <<"json", None>>,
     <<"xml", Some("//id")>>, <<"xml", Some("//one")>>, <<"xml", Some("//[")>>}
ResponseFields ==
    {[name |-> n, source |-> k[1], expr |-> k[2]] :
        n \in {"total", "next"}, k \in FieldKinds}
FieldLists == SeqsUpTo(ResponseFields, MaxFields)

\* The responses the fields are extracted from: with and without the
\* header, with a body that is JSON, XML, or neither.
ExtractResponses ==
    {[status_code |-> 200, headers |-> h, json |-> j, xml |-> x, rows |-> 0] :
        h \in {<< >>, << <<"X-Next", "more">>, <<"ETag", "v1">> >>},
        j \in {None, Some(<< <<"count", "1">> >>)},
        x \in {None, Some(<< <<"//id", <<"a", "b">> >>, <<"//one", <<"id1">> >> >>)}}

\* A call of fn on args that has not returned.
Call(fn, args) == [fn |-> fn, args |-> args, done |-> FALSE, result |-> None]

Calls ==
    {Call("AppConfig", [sources |-> ss]) : ss \in SourceLists}
        \cup {Call("_get_source", [sources |-> ss, mls |-> m]) :
                ss \in {l \in SourceLists : AppConfigOf(l) # None},
                m \in RequestedIds}
        \cup {Call("_extract_response_fields", [resp |-> r, fields |-> fs]) :
                r \in ExtractResponses, fs \in FieldLists}

InitUnit ==
    /\ pc = "call"
    /\ exitReason = "none"
    /\ inputQueue = None
    /\ argQueue = None
    /\ outputQueue = None
    /\ argDuration = None
    /\ instDuration = None
    /\ endTime = None
    /\ clock = 0
    /\ payload = [m \in Jobs |-> NoPayload]
    /\ status = [m \in Jobs |-> "new"]
    /\ receives = 0
    /\ batch = << >>
    /\ d = NoDelivery
    /\ last = NoDelivery
    /\ okRuns = [m \in Jobs |-> 0]
    /\ rn = NoRun
    /\ sink = None
    /\ outbox = << >>
    /\ call \in Calls

\* The call returns (or raises: the result of AppConfig and of _get_source
\* is then None).
Returns(result) ==
    /\ pc = "call"
    /\ ~call.done
    /\ call' = [call EXCEPT !.done = TRUE, !.result = result]
    /\ UNCHANGED <<pc, exitReason, Config, Queue, okRuns, endTime, clock, d, last,
                   rn, sink, outbox>>

LoadAppConfig ==
    /\ call.fn = "AppConfig"
    /\ Returns(AppConfigOf(call.args.sources))

ResolveSource ==
    /\ call.fn = "_get_source"
    /\ Returns(GetSource(call.args.sources, call.args.mls))

ExtractResponseFields ==
    /\ call.fn = "_extract_response_fields"
    /\ Returns(_extract_response_fields(call.args.resp, call.args.fields))

NextUnit ==
    \/ LoadAppConfig
    \/ ResolveSource
    \/ ExtractResponseFields

UnitSpec == InitUnit /\ [][NextUnit]_vars

(***************************************************************************)
(* The listener with a job of a paginated source with sink mode            *)
(* 'overwrite' waiting in its input queue: the job is delivered, and       *)
(* delivered again when it is abandoned.                                   *)
(***************************************************************************)
\* The messages of such jobs.
PagedJobs ==
    {[json |-> "object", config |-> Some(c), mls |-> "int7", output_queue |-> None,
      extra |-> << >>] :
        c \in {"paged.yaml", "late.yaml"}}

InitRedelivery ==
    /\ pc = "start"
    /\ exitReason = "none"
    /\ inputQueue = Some("jobs")
    /\ argQueue = None
    /\ outputQueue = Some("results")
    /\ \E c \in DurationConfigs :
          /\ argDuration = c[1]
          /\ instDuration = c[2]
    /\ endTime = None
    /\ clock = 0
    /\ \E p \in PagedJobs : payload = [m \in Jobs |-> IF m = 1 THEN p ELSE NoPayload]
    /\ status = [m \in Jobs |-> IF m = 1 THEN "available" ELSE "new"]
    /\ receives = 0
    /\ batch = << >>
    /\ d = NoDelivery
    /\ last = NoDelivery
    /\ okRuns = [m \in Jobs |-> 0]
    /\ rn = NoRun
    /\ sink = None
    /\ outbox = << >>
    /\ call = NoCall

RedeliverySpec == InitRedelivery /\ [][Next]_vars

(***************************************************************************)
(* Properties of the listener.                                             *)
(***************************************************************************)
Locked == {m \in Jobs : status[m] = "locked"}

\* The messages sent to an output queue, by kind.
Sent(kind) == {i \in 1..Len(outbox) : outbox[i].type = kind}
SummariesOfRun(run) == {i \in Sent("summary") : outbox[i].run = run}
SummariesOfJob(job) == {i \in Sent("summary") : outbox[i].job = job}

\* The exceptions of decoding, validating and running the pipeline.
ProcessingErrors == {"decode", "validate", "pipeline", "system_exit"}

\* C1: a message is completed only after decoding and handle_message
\* finished without raising, and a delivery in which decoding, validation
\* or the pipeline raised ends with the message abandoned, not completed.
C1_CompletedOnlyAfterSuccess ==
    /\ last.settle = "completed" =>
          last.decoded /\ last.handled /\ last.raised = "none"
    /\ d.raised \in ProcessingErrors => pc = "abandon"
    /\ last.raised \in ProcessingErrors => last.settle = "abandoned"

\* A payload that decodes to an object but lacks 'config' or 'mls', or
\* whose 'mls' int() rejects.
LacksKeys(p) ==
    /\ p.json = "object"
    /\ (p.config = None \/ p.mls = "absent" \/ CoerceMls(p.mls) = None)

\* The ways the except clause of the loop ends a delivery: the message is
\* abandoned, or abandon_message raised and the message stays locked.
AbandonTried == {"abandoned", "abandon_raised"}

\* What holds of a message whose payload lacks 'config' or 'mls' or whose
\* 'mls' is no integer: the delivery never reaches run, no run or summary
\* of the message exists, the message is never completed, and its
\* delivery ends in the except clause with the call of abandon_message.
C2_Inv ==
    /\ \A m \in Jobs : LacksKeys(payload[m]) =>
          /\ okRuns[m] = 0
          /\ status[m] # "completed"
          /\ SummariesOfJob(m) = {}
    /\ (d.job # 0 /\ LacksKeys(payload[d.job])) =>
          /\ ~d.ran
          /\ pc \in {"decode", "handle", "abandon"}
          /\ pc = "abandon" <=> d.raised = "validate"
    /\ (last.job # 0 /\ LacksKeys(payload[last.job]) /\ last.raised # "interrupt") =>
          /\ ~last.ran
          /\ last.raised = "validate"
          /\ last.settle \in AbandonTried

\* The step that ends such a delivery, no interrupt cutting it short: the
\* message is handed back to the queue exactly when abandon_message did
\* not raise.
C2_Step ==
    (pc = "abandon" /\ LacksKeys(payload[d.job]) /\ pc' # "exited" /\ last' # last) =>
        /\ last'.job = d.job
        /\ last'.settle \in AbandonTried
        /\ last'.settle = "abandoned" <=> status'[d.job] = "available"
        /\ last'.settle = "abandon_raised" <=> status'[d.job] = "locked"

\* C2, amended: for a message whose payload lacks 'config' or 'mls' or
\* whose 'mls' is no integer, run is never invoked and the message is never
\* completed; the listener calls abandon_message for it, and the message is
\* abandoned unless that call raises, in which case it stays locked.
C2_InvalidPayloadNeverRun == []C2_Inv /\ [][C2_Step]_vars

\* C2 as stated: for a message whose payload lacks 'config' or 'mls' or
\* whose 'mls' is no integer, run is never invoked (the delivery never
\* reaches run, and no run or summary of the message exists), the message
\* is never completed, and its delivery ends with the message abandoned.
C2_InvalidPayloadAbandoned ==
    /\ \A m \in Jobs : LacksKeys(payload[m]) =>
          /\ okRuns[m] = 0
          /\ status[m] # "completed"
          /\ SummariesOfJob(m) = {}
    /\ (d.job # 0 /\ LacksKeys(payload[d.job])) =>
          /\ ~d.ran
          /\ pc \in {"decode", "handle", "abandon"}
          /\ pc = "abandon" <=> d.raised = "validate"
    /\ (last.job # 0 /\ LacksKeys(payload[last.job]) /\ last.raised # "interrupt") =>
          /\ ~last.ran
          /\ last.raised = "validate"
          /\ last.settle = "abandoned"

\* A message whose 'mls' is no integer was abandoned by the validation.
C2_Witness ==
    /\ last.job # 0
    /\ payload[last.job].mls = "strabc"
    /\ last.raised = "validate"
    /\ last.settle = "abandoned"
    /\ status[last.job] = "available"

\* C3 as stated: a delivery whose run succeeded ends with the message
\* completed and, when an output queue is configured, with exactly one
\* summary of the job sent over the whole execution.
C3_ExactlyOneSummary ==
    (last.runOk /\ last.raised # "interrupt"
               /\ OutQueue(payload[last.job]) # None) =>
        /\ last.settle = "completed"
        /\ Cardinality(SummariesOfJob(last.job)) = 1

\* What holds of the runs that succeeded, in every state.
C3_Inv ==
    /\ \A run \in 1..MaxReceives : Cardinality(SummariesOfRun(run)) <= 1
    /\ \A m \in Jobs :
          /\ Cardinality(SummariesOfJob(m)) <= okRuns[m]
          /\ status[m] = "completed" => (d.job # m /\ okRuns[m] >= 1)
    /\ \A r \in {d, last} : r.job # 0 =>
          /\ r.published # "none" => (r.runOk /\ r.handled)
          /\ r.published = "sent" <=> SummariesOfRun(r.run) # {}
          /\ r.published = "skipped" =>
                (OutQueue(payload[r.job]) = None /\ SummariesOfRun(r.run) = {})
    /\ (d.published # "none" /\ d.raised = "none") => pc = "complete"
    /\ (last.runOk /\ last.raised = "none") =>
          (last.settle = "completed" /\ status[last.job] = "completed")
    /\ (last.runOk /\ last.settle \in AbandonTried) => last.raised = "complete"

\* A completed message is not received, run or summarised again.
C3_Step ==
    \A m \in Jobs : status[m] = "completed" =>
        /\ status'[m] = "completed"
        /\ okRuns'[m] = okRuns[m]
        /\ SummariesOfJob(m)' = SummariesOfJob(m)

\* C3, amended: a run that succeeded is followed by one attempt to publish
\* a summary when an output queue is configured (at most one summary per
\* run: one if the send succeeds, none if it fails) and then by
\* complete_message; abandon_message is called only when complete_message
\* raises, and the message, once abandoned, is run and summarised again on
\* redelivery; once completed it is not received, run or summarised again.
C3_SummaryPerRun == []C3_Inv /\ [][C3_Step]_vars

\* A job was run and summarised twice, complete_message having raised the
\* first time, and is completed.
C3_Witness ==
    /\ last.job # 0
    /\ last.settle = "completed"
    /\ last.published = "sent"
    /\ okRuns[last.job] = 2
    /\ Cardinality(SummariesOfJob(last.job)) = 2

\* C4 as stated: when publishing the summary fails after a run that
\* succeeded, the message is completed, not abandoned.
C4_PublishFailureCompleted ==
    (last.published = "failed" /\ last.raised # "interrupt") =>
        (last.settle = "completed" /\ last.raised = "none")

\* What holds of a delivery whose summary could not be sent, in every state.
C4_Inv ==
    /\ \A r \in {d, last} : r.published = "failed" =>
          /\ r.runOk /\ r.handled
          /\ r.raised \in {"none", "complete", "interrupt"}
    /\ (d.published = "failed" /\ d.raised = "none") => pc = "complete"
    /\ (last.published = "failed" /\ last.raised = "none") =>
          (last.settle = "completed" /\ status[last.job] = "completed")
    /\ (last.published = "failed" /\ last.settle \in AbandonTried) =>
          last.raised = "complete"

\* A job whose summary could not be sent, once completed, is not run again.
C4_Step ==
    (last.published = "failed" /\ last.settle = "completed") =>
        /\ okRuns'[last.job] = okRuns[last.job]
        /\ d'.job # last.job

\* C4, amended: when publishing the summary fails after a run that
\* succeeded, handle_message does not raise and the listener goes on to
\* complete_message; the message is completed and the job not run again,
\* unless complete_message itself raises, the one case in which
\* abandon_message is called for the message.
C4_PublishFailureSwallowed == []C4_Inv /\ [][C4_Step]_vars

\* A message was completed though its summary could not be sent.
C4_Witness ==
    /\ last.published = "failed"
    /\ last.settle = "completed"
    /\ status[last.job] = "completed"

\* C5: a delivery in which the pipeline failed, the configuration without a
\* source included, ends with the message abandoned, and the listener does
\* not exit because of it.
C5_PipelineFailureAbandons ==
    /\ (last.ran /\ ~last.runOk /\ last.raised # "interrupt") =>
          last.settle = "abandoned"
    /\ exitReason # "system_exit"

\* The rows the sink file holds.
SinkRows == Lines(sink)

\* What holds of the delivery in progress and of the sink file, in every
\* state: receive_messages hands out one message at a time, a message is
\* asked for only when none is in progress, a run belongs to the message
\* in progress, and the rows of a run lie together in the sink file, in
\* the order of their pages, the run in progress writing at the end.
C6_Inv ==
    /\ batch = << >>
    /\ pc = "receive" => d.job = 0
    /\ d.job # 0 => status[d.job] = "locked"
    /\ rn.src # None => (d.job # 0 /\ pc \in {"fetch", "finish", "publish", "complete", "abandon"})
    /\ \A i, k \in 1..Len(SinkRows) : (i < k /\ SinkRows[i].run = SinkRows[k].run) =>
          /\ SinkRows[i].page <= SinkRows[k].page
          /\ \A j \in i..k : SinkRows[j].run = SinkRows[i].run
    /\ \A i, k \in 1..Len(SinkRows) : (i < k /\ SinkRows[i].run = d.run) =>
          SinkRows[k].run = d.run

\* A message is received only when the listener is done with the one
\* received before, and a message the listener is done with is locked only
\* when its abandon_message raised.
C6_Step ==
    /\ receives' # receives =>
          /\ d.job = 0
          /\ last.job # 0 => last.settle \in {"completed"} \cup AbandonTried
    /\ \A m \in Jobs :
          (status'[m] = "locked" /\ d'.job # m /\ pc' # "exited") =>
              \/ status[m] = "locked" /\ d.job # m
              \/ d.job = m /\ pc = "abandon" /\ last'.job = m
                           /\ last'.settle = "abandon_raised"

\* C6, amended: a message is received only after the listener is done with
\* the message received before, which was completed or abandoned, or whose
\* abandon_message raised and left it locked; so at most one message and
\* one run are in progress, and the page writes of two jobs are never
\* interleaved in the sink file.
C6_OneMessageAtATime == []C6_Inv /\ [][C6_Step]_vars

\* C6 as stated: a message is received only when every message received
\* before is completed or abandoned, none being left locked.
C6_ReceivedAfterSettled ==
    /\ Cardinality(Locked) <= 1
    /\ pc = "receive" => (Locked = {} /\ d.job = 0)
    /\ d.job # 0 => Locked = {d.job}

\* The sink file holds the rows of two runs, and the second message is
\* in progress after the first was settled.
C6_Witness ==
    /\ Len(SinkRows) = 2
    /\ SinkRows[1].run # SinkRows[2].run
    /\ d.run = 2
    /\ last.run = 1
    /\ last.settle # "none"

Warnings == Sent("warning")

\* C7 as stated: when the loop has stopped on the listen duration and an
\* output queue is configured, exactly one warning was published.
C7_ExactlyOneWarning ==
    (exitReason = "timeout" /\ outputQueue # None) => Cardinality(Warnings) = 1

\* What holds of the timeout and its warning, in every state.
C7_Inv ==
    /\ (pc # "start" /\ Truthy(QueueName)) =>
          (endTime # None <=>
              (EffectiveDuration # None /\ Val(EffectiveDuration) > 0))
    /\ (pc \in {"warn", "warned"} \/ exitReason = "timeout") =>
          (TimedOut /\ d.job = 0)
    /\ Cardinality(Warnings) <= 1
    /\ \A i \in Warnings :
          /\ pc \in {"warned", "exited"}
          /\ outputQueue # None
          /\ outbox[i].queue = Val(outputQueue)
          /\ outbox[i].reason = "listen_timeout"
          /\ outbox[i].input_queue = Val(QueueName)
          /\ outbox[i].duration = Val(EffectiveDuration)
          /\ i = Len(outbox)

\* The warning is sent by the one step that follows the check of the
\* timeout, and nothing is received or sent after it.
C7_Step ==
    /\ Warnings' # Warnings => pc = "warn"
    /\ (pc = "warned" \/ exitReason = "timeout") =>
          (receives' = receives /\ status' = status /\ outbox' = outbox)

\* C7, amended: with a positive effective listen duration (the argument,
\* when given, replacing the instance's) the loop stops once the duration
\* has elapsed; on the timeout one attempt is made to publish a warning
\* when an output queue is configured, so that at most one warning with
\* reason 'listen_timeout', the input queue name and the duration is
\* published, none when the send fails; no message is received after it.
C7_TimeoutStops ==
    /\ []C7_Inv
    /\ [][C7_Step]_vars
    /\ (endTime # None) ~> (pc = "exited")

\* The loop stopped on the listen duration after a delivery, and its one
\* warning was published.
C7_Witness ==
    /\ exitReason = "timeout"
    /\ receives > 0
    /\ Cardinality(Warnings) = 1
    /\ outbox[Len(outbox)].duration = ListenDuration

\* C8: when the listener has exited on an interrupt, no delivery was cut
\* short and no received message is left neither completed nor abandoned.
C8_InterruptBetweenCycles ==
    exitReason \in {"interrupt", "interrupt_uncaught"} =>
        (last.raised # "interrupt" /\ Locked = {})

\* C9: a listener that exited on a caught interrupt has published no
\* warning, and once it has exited nothing is published.
C9_Inv ==
    /\ exitReason = "interrupt" => Warnings = {}
    /\ exitReason # "none" => pc = "exited"

\* The step of the interrupt exits the loop and publishes nothing.
C9_Step ==
    /\ (exitReason = "none" /\ exitReason' \in {"interrupt", "interrupt_uncaught"}) =>
          (pc' = "exited" /\ outbox' = outbox /\ receives' = receives)
    /\ pc = "exited" => outbox' = outbox

\* C9: the interrupt ends the loop at once and no warning is published,
\* with or without a listen duration and an output queue.
C9_InterruptNoWarning == []C9_Inv /\ [][C9_Step]_vars

\* The listener exited on an interrupt with a listen duration and an
\* output queue configured, the duration having elapsed.
C9_Witness ==
    /\ exitReason = "interrupt"
    /\ outputQueue # None
    /\ endTime # None
    /\ clock >= Val(endTime)

\* C10: the loop is left only through the listen-duration timeout or an
\* interrupt; an error of receive_messages leaves the listener running.
C10_ExitsOnlyByTimeoutOrInterrupt ==
    /\ pc = "receive_error" => exitReason = "none"
    /\ (pc = "exited" /\ Truthy(QueueName)) =>
          exitReason \in {"timeout", "interrupt", "interrupt_uncaught"}

(***************************************************************************)
(* Properties of run() and send().                                         *)
(***************************************************************************)
\* The fetches of the run so far, and the source of the run.
F == rn.fetched
Src == Val(rn.src)
PagedRun == rn.src # None /\ Paginated(Src)

\* run() has returned.
Returned == pc = "publish" /\ rn.metadata # None

RECURSIVE SumRows(_)
SumRows(fs) == IF fs = << >> THEN 0 ELSE Head(fs).rows + SumRows(Tail(fs))

\* C11: in a paginated run the pages are requested one at a time in the
\* order of the counter from start, each with the counter as the 'page' of
\* its context; the first empty page ends the run without an error and
\* nothing is requested after it; the total returned is the sum of the rows
\* of the pages fetched.
C11_PagesInOrderUntilEmpty ==
    PagedRun =>
        /\ \A i \in 1..Len(F) : F[i].page = Some(PageStart(Src) + i - 1)
        /\ rn.page = PageStart(Src) + Cardinality({i \in 1..Len(F) : F[i].mode # "none"})
        /\ (call.calls > 0 /\ Src.request = GetRequest) =>
              Val(call.request).url =
                  Str(<<Text("https://mls/listings/"), Text(ToString(rn.page))>>)
        /\ \A i \in 1..(Len(F) - 1) : ~F[i].raised /\ F[i].rows > 0 /\ F[i].mode # "none"
        /\ (Len(F) > 0 /\ ~F[Len(F)].raised /\ F[Len(F)].rows = 0) =>
              /\ d.raised = "none"
              /\ pc \in {"finish", "publish"}
              /\ call = NoCall
              /\ rn.page = PageStart(Src) + Len(F) - 1
        /\ Returned => rn.total = SumRows(F)

\* A run returned whose second page was empty, below max_pages.
C11_Witness ==
    /\ PagedRun
    /\ Returned
    /\ Len(F) = 2
    /\ F[1].rows > 0
    /\ F[2].rows = 0
    /\ F[2].page # None /\ Val(F[2].page) < PageMax(Src)
    /\ rn.total = F[1].rows

\* The pages a pagination of this start and max_pages can fetch.
MaxFetches(src) ==
    IF PageMax(src) - PageStart(src) + 1 > 0
    THEN PageMax(src) - PageStart(src) + 1 ELSE 0

\* What holds of the pages of a paginated run, in every state.
C12_Inv ==
    PagedRun =>
        /\ Len(F) <= MaxFetches(Src)
        /\ \A i \in 1..Len(F) : Val(F[i].page) <= PageMax(Src)
        /\ (pc = "fetch" /\ call.calls > 0) =>
              (rn.page <= PageMax(Src) /\ Len(F) < MaxFetches(Src))
        /\ call.calls <= StopAfterAttempt

\* C12: a paginated run ends, whatever the upstream API returns: at most
\* max(0, max_pages - start + 1) pages are fetched and none beyond
\* max_pages.
C12_PaginationBounded == []C12_Inv /\ <>RunOver

\* A run returned that never got an empty page: it stopped on max_pages,
\* having fetched two pages or more.
C12_Witness ==
    /\ PagedRun
    /\ Returned
    /\ Len(F) = MaxFetches(Src)
    /\ Len(F) >= 2
    /\ \A i \in 1..Len(F) : F[i].rows > 0

\* The rows of the pages fetched, in the order of the fetches.
RECURSIVE PageRows(_)
PageRows(fs) ==
    IF fs = << >> THEN << >>
    ELSE Rows(d.run, d.job, Val(Head(fs).page), Head(fs).rows) \o PageRows(Tail(fs))

\* C13: when a paginated run with sink mode 'overwrite' has returned,
\* whatever its start page, the first page fetched was written with
\* overwrite and every later one with append, and the sink file holds the
\* rows of all the non-empty pages fetched, in page order, after one csv
\* header.
C13_OverwriteOnlyFirstPage ==
    (PagedRun /\ Returned /\ Src.sink.mode = "overwrite" /\ SumRows(F) > 0) =>
        /\ \A i \in 1..Len(F) :
              F[i].rows > 0 => F[i].mode = IF i = 1 THEN "overwrite" ELSE "append"
        /\ sink = Some((IF Src.sink.type = "csv" THEN <<Header>> ELSE << >>)
                          \o PageRows(F))

\* C14: when a paginated run has returned in which every page fetched
\* mapped to no row, no response was kept after the loop and the metadata
\* returned has no response_fields.
C14_AllEmptyKeepsNoResponse ==
    (PagedRun /\ Returned /\ Len(F) > 0 /\ SumRows(F) = 0) =>
        /\ rn.last_resp = None
        /\ Val(rn.metadata).response_fields = None

\* What holds of a call of send(), in every state.
C15_Inv ==
    /\ call.calls <= StopAfterAttempt
    /\ call.failures <= call.calls
    /\ call.calls > 0 => call.last # None
    /\ (call.calls > 0 /\ call.result = None) =>
          /\ Val(call.last).error \in Retryable
          /\ call.failures = call.calls
          /\ call.calls < StopAfterAttempt
    /\ call.result # None =>
          /\ call.result = call.last
          /\ Val(call.result).error = "none" =>
                /\ call.calls = call.failures + 1
                /\ Val(call.result).resp # None
          /\ Val(call.result).error \in Retryable =>
                /\ call.calls = StopAfterAttempt
                /\ call.failures = StopAfterAttempt

\* What holds of a step: an HTTP call is one more attempt of a call of
\* send() that has not come to its result.
C15_Step ==
    call'.calls > call.calls =>
        /\ call.result = None
        /\ call'.calls = call.calls + 1

\* C15: a call of send() whose first k attempts (k < 5) fail with a
\* connection failure, a read timeout or a remote-protocol violation and
\* whose attempt k+1 gets a response returns that response after k+1 HTTP
\* calls; after five such failures in a row it has made five HTTP calls
\* and raises the last of these errors itself.
C15_RetryThenReturnOrRaise == []C15_Inv /\ [][C15_Step]_vars

\* send() returned the response of its fourth attempt, after three
\* failures.
C15_Witness ==
    /\ call.result # None
    /\ Val(call.result).error = "none"
    /\ Val(Val(call.result).resp).status_code = 200
    /\ call.calls = 4
    /\ call.failures = 3

\* The call of send() came to a response on which raise_for_status()
\* raises: one whose status is not 2xx.
StatusError ==
    /\ call.result # None
    /\ Val(call.result).error = "none"
    /\ Val(Val(call.result).resp).status_code \notin 200..299

\* The error statuses as the statement of C16 has them: those that are
\* not 2xx and not 3xx.
C16_StatedError ==
    /\ call.result # None
    /\ Val(call.result).error = "none"
    /\ Val(Val(call.result).resp).status_code \notin 200..399

\* A response that is no failure as the statement of C16 has it: its
\* status is 2xx or 3xx and its body decodes in the format of the source.
C16_StatedSuccess ==
    /\ call.result # None
    /\ Val(call.result).error = "none"
    /\ Val(Val(call.result).resp).status_code \in 200..399
    /\ IF Src.input_format = "json" THEN Val(Val(call.result).resp).json # None
       ELSE Val(Val(call.result).resp).xml # None

\* What holds of the HTTP calls, in every state: a response, whatever its
\* status, is what send() comes to, and a run that is over with a
\* response whose status is not 2xx has raised on its last fetch.
C16_Inv ==
    /\ (call.last # None /\ Val(call.last).error = "none") =>
          call.result = call.last
    /\ (StatusError /\ pc # "fetch") =>
          /\ pc = "abandon"
          /\ d.raised = "pipeline"
          /\ ~d.runOk
          /\ Len(F) > 0
          /\ F[Len(F)].raised
          /\ F[Len(F)].mode = "none"

\* What holds of the step after a response whose status is not 2xx:
\* there is no other HTTP call, run() raises, nothing is written and the
\* page counter stays.
C16_Step ==
    StatusError =>
        /\ call' = call
        /\ pc' = "abandon"
        /\ d'.raised = "pipeline"
        /\ sink' = sink
        /\ rn'.total = rn.total
        /\ rn'.page = rn.page
        /\ Len(rn'.fetched) = Len(F) + 1

RECURSIVE Unrendered(_)
Unrendered(v) ==
    CASE v.t = "str" -> \E i \in 1..Len(v.pieces) : v.pieces[i].expr
      [] v.t = "list" -> \E i \in 1..Len(v.items) : Unrendered(v.items[i])
      [] v.t = "dict" -> \E i \in 1..Len(v.items) : Unrendered(v.items[i][2])
      [] OTHER -> FALSE

\* C19: the request of every HTTP call of send() has its URL, its headers,
\* its query parameters and its body resolved against the context: none of
\* their values is sent in its template form.
C19_RequestFullyRendered ==
    call.request # None =>
        LET request == Val(call.request)
        IN  /\ ~Unrendered(request.url)
            /\ ~Unrendered(request.headers)
            /\ ~Unrendered(request.params)
            /\ request.body # None => ~Unrendered(Val(request.body))

(***************************************************************************)
(* Properties of the functions applied on their own.                       *)
(***************************************************************************)
\* The call of fn has returned or raised.
Called(fn) == call.fn = fn /\ call.done

\* The least of a non-empty set of indices.
Least(S) == CHOOSE i \in S : \A j \in S : i <= j

\* C17: on a non-empty list of source definitions _get_source returns the
\* definition of the requested id if there is one; else the definition of
\* id 0 if there is one; else the first definition named 'default' in any
\* case of letters if there is one; else the first definition.  On an
\* empty list it fails.
C17_SourcePriority ==
    Called("_get_source") =>
        LET sources == call.args.sources
            WithId(n) == {i \in 1..Len(sources) : sources[i].mls_id = n}
            Named == {i \in 1..Len(sources) :
                        sources[i].name \in {"default", "Default", "DEFAULT"}}
        IN  IF sources = << >> THEN call.result = None
            ELSE /\ call.result # None
                 /\ Val(call.result) =
                       IF WithId(call.args.mls) # {}
                       THEN sources[Least(WithId(call.args.mls))]
                       ELSE IF WithId(0) # {} THEN sources[Least(WithId(0))]
                       ELSE IF Named # {} THEN sources[Least(Named)]
                       ELSE sources[1]

\* An id no definition has was asked for, and the definition of id 0 was
\* returned though a definition named 'default' is declared before it.
C17_Witness ==
    /\ Called("_get_source")
    /\ Len(call.args.sources) = 3
    /\ call.args.mls = 99
    /\ call.args.sources[1].name = "Default"
    /\ call.args.sources[1].mls_id = 7
    /\ call.args.sources[3].mls_id = 0
    /\ call.result = Some(call.args.sources[3])

\* The resolution of a field fails: the header is missing, the body is
\* malformed, or the expression is rejected.
Fails(resp, f) ==
    CASE f.source = "header" ->
            \A i \in 1..Len(resp.headers) :
                Lower(resp.headers[i][1]) # Lower(Val(f.expr))
      [] f.source = "json" -> resp.json = None \/ f.expr \subseteq BadExprs
      [] f.source = "xml" -> resp.xml = None \/ f.expr \subseteq BadExprs
      [] OTHER -> FALSE

\* The fields without the i-th.
Without(fields, i) == SubSeq(fields, 1, i - 1) \o SubSeq(fields, i + 1, Len(fields))

\* C18 as it is stated: _extract_response_fields returns a map with one
\* entry per declared field; the entry of a field whose resolution fails
\* is null, and the value of every other field is what it would be if that
\* field were not declared.
C18_OneEntryPerField ==
    Called("_extract_response_fields") =>
        LET resp == call.args.resp
            fields == call.args.fields
            out == call.result
        IN  /\ Len(out) = Len(fields)
            /\ \A i \in 1..Len(fields) :
                  /\ Fails(resp, fields[i]) => DictGet(out, fields[i].name) = Some(None)
                  /\ \A j \in 1..Len(Without(fields, i)) :
                        LET n == Without(fields, i)[j].name
                        IN  DictGet(out, n) =
                               DictGet(_extract_response_fields(resp, Without(fields, i)), n)

\* C18: _extract_response_fields returns a map with one entry per declared
\* name, holding what the last field declared with the name yields on its
\* own; the entry is null when the resolution of that field fails, and the
\* values under all other names are what they would be if a field were not
\* declared.
C18_OneEntryPerName ==
    Called("_extract_response_fields") =>
        LET resp == call.args.resp
            fields == call.args.fields
            out == call.result
            names == {fields[i].name : i \in 1..Len(fields)}
            LastOf(n) == CHOOSE i \in 1..Len(fields) :
                            /\ fields[i].name = n
                            /\ \A j \in (i + 1)..Len(fields) : fields[j].name # n
        IN  /\ {out[k][1] : k \in 1..Len(out)} = names
            /\ Len(out) = Cardinality(names)
            /\ \A n \in names :
                  /\ DictGet(out, n) =
                        DictGet(_extract_response_fields(resp, <<fields[LastOf(n)]>>), n)
                  /\ Fails(resp, fields[LastOf(n)]) => DictGet(out, n) = Some(None)
            /\ \A i \in 1..Len(fields) :
                  \A n \in names \ {fields[i].name} :
                      DictGet(out, n) =
                         DictGet(_extract_response_fields(resp, Without(fields, i)), n)

\* The body is not JSON: the field that queries it is null, and the field
\* declared after it has the value of its header.
C18_Witness ==
    /\ Called("_extract_response_fields")
    /\ Len(call.args.fields) = 2
    /\ call.args.resp.json = None
    /\ call.args.fields[1] = [name |-> "total", source |-> "json", expr |-> Some("count")]
    /\ call.args.fields[2] = [name |-> "next", source |-> "header", expr |-> Some("X-NEXT")]
    /\ call.result = << <<"total", None>>, <<"next", Some("more")>> >>

\* C20: AppConfig on a list of source definitions two of which share an
\* mls_id fails validation, and is built from the list when the ids are
\* all distinct.
C20_DuplicateIdsRejected ==
    Called("AppConfig") =>
        LET sources == call.args.sources
            shared == \E i, j \in 1..Len(sources) :
                         i < j /\ sources[i].mls_id = sources[j].mls_id
        IN  IF shared THEN call.result = None
            ELSE call.result = Some(sources)

\* The first and the third of three definitions share an id, and the
\* validation failed.
C20_Witness ==
    /\ Called("AppConfig")
    /\ Len(call.args.sources) = 3
    /\ call.args.sources[1].mls_id = call.args.sources[3].mls_id
    /\ call.args.sources[1].mls_id # call.args.sources[2].mls_id
    /\ call.result = None

(***************************************************************************)
(* Properties of what run() leaves in the sink.                            *)
(***************************************************************************)
\* The rows the sink file holds, its csv header left out.
DataRows == SelectSeq(Lines(sink), LAMBDA r : r # Header)

\* C21: when a run without pagination has returned it has fetched once and
\* written once with the declared mode, and its total is the number of
\* rows mapped, zero included; with mode 'overwrite' the sink file holds
\* the rows mapped in this run and no other.
C21_SingleFetchWritesOnce ==
    (rn.src # None /\ ~PagedRun /\ Returned) =>
        /\ Len(F) = 1
        /\ rn.total = F[1].rows
        /\ Src.sink.mode = "overwrite" =>
              DataRows = Rows(d.run, d.job, 0, F[1].rows)

\* C22: in a call of _extract_response_fields the JSON body is parsed at
\* most once, however many 'json' fields are declared, and the XML body at
\* most once, however many 'xml' fields are declared, also when the
\* parsing fails.
C22_BodyParsedOnce ==
    Called("_extract_response_fields") =>
        LET st == ExtractLoop(call.args.resp, call.args.fields)
        IN  /\ st.json_parses <= 1
            /\ st.xml_parses <= 1

\* The rows of the run the sink file holds that are of pages before the
\* run's counter.
EarlierRows ==
    SelectSeq(Lines(sink),
              LAMBDA r : r.run = d.run /\ r.job = d.job /\ r.page < rn.page)

\* What holds of a paginated run that has raised: it raised on the page of
\* its counter, every page before was written, the sink file holds the
\* rows of the pages before in their order, and no row of a later page.
C23_Inv ==
    (PagedRun /\ pc = "abandon") =>
        /\ d.raised = "pipeline"
        /\ ~d.runOk
        /\ rn.metadata = None
        /\ Len(F) >= 1
        /\ F[Len(F)].page = Some(rn.page)
        /\ F[Len(F)].mode = "none"
        /\ \A i \in 1..(Len(F) - 1) : F[i].mode # "none" /\ F[i].rows > 0
        /\ \A i \in 1..Len(Lines(sink)) :
              Lines(sink)[i].run = d.run => Lines(sink)[i].page <= rn.page
        /\ EarlierRows = PageRows(SubSeq(F, 1, Len(F) - 1))

\* What holds of a step of a paginated run: the pass that fails leaves the
\* total and the counter as they are, and a run that has raised takes no
\* other step.
C23_Step ==
    /\ (PagedRun /\ pc = "fetch" /\ pc' = "abandon") =>
          /\ rn'.total = rn.total
          /\ rn'.page = rn.page
          /\ Len(rn'.fetched) = Len(F) + 1
    /\ (PagedRun /\ pc = "abandon") => UNCHANGED vars

\* C23: when a paginated run fails on page k, after the retries of a
\* transport error, on an error status or on a sink error, run() raises,
\* the rows of the pages written before k are in the sink file as they
\* were written, and no page after k is fetched or written.
C23_FailureKeepsPagesWritten == []C23_Inv /\ [][C23_Step]_vars

\* The fetches of the run whose rows were written, and the rows of the run
\* the sink file holds.
Written == SelectSeq(F, LAMBDA f : f.mode # "none")
RunRows == SelectSeq(Lines(sink), LAMBDA r : r.run = d.run /\ r.job = d.job)

\* C24: when run() has returned, its total is the number of rows the run
\* wrote to the sink, with or without pagination, and its sample is the
\* first row it wrote, or null when the total is 0.
C24_TotalCountsRowsWritten ==
    (rn.src # None /\ Returned) =>
        /\ rn.total = SumRows(Written)
        /\ Src.sink.mode = "append" => rn.total = Len(RunRows)
        /\ rn.total <= Len(F) * MaxRows
        /\ rn.total = 0 <=> Val(rn.metadata).sample = None
        /\ rn.total > 0 =>
              /\ Val(rn.metadata).sample =
                    Some(Rows(d.run, d.job,
                              IF PagedRun THEN Val(Written[1].page) ELSE 0,
                              Written[1].rows)[1])
              /\ Src.sink.mode = "append" => Val(rn.metadata).sample = Some(RunRows[1])

\* A run returned that wrote two pages: its total counts the rows of both
\* and its sample is the first row of the first.
C24_Witness ==
    /\ PagedRun
    /\ Returned
    /\ Len(Written) = 2
    /\ rn.total = 2 * MaxRows
    /\ Val(Val(rn.metadata).sample).page = PageStart(Src)
    /\ Val(Val(rn.metadata).sample).idx = 1

(***************************************************************************)
(* Properties of a job delivered again.                                    *)
(***************************************************************************)
\* The sink file a run of the fetches fs leaves when it begins with file.
RECURSIVE CleanRun(_, _)
CleanRun(fs, file) ==
    IF fs = << >> THEN file
    ELSE CleanRun(Tail(fs),
                  write_records(file,
                                Rows(d.run, d.job, Val(Head(fs).page), Head(fs).rows),
                                Src.sink.type,
                                PageMode(Val(Head(fs).page), Src.sink.mode)))

\* C25: with sink mode 'overwrite' and an upstream API that returns the
\* same pages on every call, when a job has failed after writing pages,
\* was abandoned, and its next delivery has returned, the sink file holds
\* what one run of the job on its own leaves: no row twice, and no row of
\* the run that failed.
C25_RedeliveryLeavesCleanRun ==
    (/\ d.job = 1 /\ d.run = 2
     /\ status[2] = "new"
     /\ last.job = 1 /\ last.run = 1
     /\ last.raised = "pipeline" /\ last.settle = "abandoned"
     /\ PagedRun /\ Returned
     /\ Src.sink.mode = "overwrite"
     /\ F # << >> /\ F[1].rows > 0) =>
        sink = CleanRun(F, None)

====
